---- MODULE Spec2Model ----
(***************************************************************************)
(* Model of the HMS push HTTP client of go-hms-push.                       *)
(*                                                                         *)
(* Two generations of the client live in the repository:                   *)
(*   "traced"  src/push/config/config.go  (package httpclient, lines       *)
(*             62-305): validated retry range, TransportConfig, trace      *)
(*             hooks, the context handed to the transport;                 *)
(*   "plain"   src/httpclient/httpclient.go: ProxyConfig, no validation,   *)
(*             no hooks, the context used by pendingForRetry only.         *)
(* Definitions of the plain generation carry the suffix Plain.             *)
(***************************************************************************)
EXTENDS Integers, Sequences, FiniteSets, TLC

VARIABLES
    stage,      \* "new" | "converted" | "ready" (a client exists) | "failed"
    variant,    \* which generation's code ran: "traced" | "plain" | "none"
    appcfg,     \* the application Config the HTTPClientConfig was derived from, or Nil
    config,     \* the *HTTPClientConfig argument NewHTTPClient received, or Nil
    client,     \* the *HTTPClient returned, or Nil
    newErr,     \* the error NewHTTPClient (or the config conversion) returned, or Nil
    \* one entry per DoHttpRequest call (goroutine)
    pc,         \* "idle" | "build" | "send" | "read" | "after" | "wait" | "done"
    ctxDone,    \* ctx.Done() of the call's context is closed
    cancelledAt, \* attempts the call had started when its context was cancelled
    trace,      \* the HmsTrace value in the call's context: Nil or the set of non-nil hooks
    req,        \* the *PushRequest argument
    retryTimes, \* loop variable of DoHttpRequest
    result,     \* local result of DoHttpRequest: Nil or a PushResponse
    err,        \* local err of DoHttpRequest: Nil or an error
    request,    \* the *http.Request built by the current attempt, or Nil
    resp,       \* the *http.Response of the current attempt, or Nil
    openBodies, \* response bodies opened by the call and not yet closed
    timer,      \* time.After channel of pendingForRetry: "off" | "armed" | "fired"
    waits,      \* inter-attempt waits begun by the call
    history,    \* outcome of each attempt of the call, in order
    events,     \* what each attempt did, in order: <<attempt, event>>
    hooked      \* per hook set (owner): the invocations it received

ctorVars == <<stage, variant, appcfg, config, client, newErr>>
callVars == <<pc, ctxDone, cancelledAt, trace, req, retryTimes, result, err, request, resp,
              openBodies, timer, waits, history, events, hooked>>
vars == <<ctorVars, callVars>>

Nil == [nil |-> TRUE]

(***************************************************************************)
(* Bounds of the model and constants of the program.                       *)
(***************************************************************************)
MaxRetryInput == 3      \* MaxRetryTimes values 0..MaxRetryInput are tried
MaxOptions == 2         \* header options per request in SpecBuild
MaxRetryConc == 2       \* MaxRetryTimes values 1..MaxRetryConc in SpecConc
RetryLimit == 5         \* upper limit of MaxRetryTimes in the traced client
DefaultMaxRetryTimes == 1
DefaultRetryInterval == 0
MaxIdleConns == 10
IdleConnTimeoutSec == 30

(***************************************************************************)
(* The environment of construction: files and URL parsing.                 *)
(***************************************************************************)
\* ioutil.ReadFile: the paths of the model and what they hold.
CAPaths == {"", "ca.pem", "junk.pem", "gone.pem"}

ReadFile(path) ==
    CASE path = "ca.pem"   -> [err |-> Nil, bytes |-> "CERTIFICATE"]
      [] path = "junk.pem" -> [err |-> Nil, bytes |-> "garbage"]
      [] OTHER             -> [err |-> [kind |-> "file", attempt |-> 0], bytes |-> ""]

AppendCertsUnchecked(bytes) == TRUE

\* x509.CertPool.AppendCertsFromPEM: TRUE iff at least one certificate parsed.
AppendCertsFromPEM(bytes) == bytes = "CERTIFICATE"

\* url.ParseRequestURI on the proxy strings of the model; the parser lower-cases
\* the scheme.
ProxyStrings == {"", "http://proxy", "HTTPS://proxy", "::"}

ParseRequestURI(s) ==
    CASE s = "http://proxy"  -> [err |-> Nil, url |-> [Scheme |-> "http"]]
      [] s = "HTTPS://proxy" -> [err |-> Nil, url |-> [Scheme |-> "https"]]
      [] OTHER               -> [err |-> [kind |-> "url", attempt |-> 0], url |-> Nil]

ToLower(scheme) == scheme   \* schemes of parsed URLs are already lower case

ConfigError(kind) == [kind |-> kind, attempt |-> 0]

\* http.Transport literal of both constructors.
NewTransport ==
    [MaxIdleConns |-> MaxIdleConns, IdleConnTimeout |-> IdleConnTimeoutSec,
     DisableCompression |-> TRUE, Proxy |-> Nil, RootCAs |-> "system"]

(***************************************************************************)
(* Traced generation: NewHTTPClientConfig and NewHTTPClient.               *)
(***************************************************************************)
\* c is Nil or [ProxyUrl, TrustedCA, MaxRetryTimes, RetryInterval].
NewHTTPClientConfig(c) ==
    IF c = Nil THEN [cfg |-> Nil, err |-> ConfigError("config is nil")]
    ELSE LET retry == [MaxRetryTimes |-> c.MaxRetryTimes, RetryInterval |-> c.RetryInterval]
         IN IF Len(c.ProxyUrl) > 0
            THEN LET p == ParseRequestURI(c.ProxyUrl)
                 IN IF p.err # Nil
                    THEN [cfg |-> Nil, err |-> ConfigError("parse proxy url error")]
                    ELSE [cfg |-> [TransportConfig |-> [ProxyUrl |-> p.url, TrustedCA |-> c.TrustedCA],
                                   RetryConfig |-> retry],
                          err |-> Nil]
            ELSE [cfg |-> [TransportConfig |-> Nil, RetryConfig |-> retry], err |-> Nil]

\* cfg is Nil or [TransportConfig, RetryConfig], each Nil or a record.
NewHTTPClientResult(cfg) ==
    LET retryGiven == cfg # Nil /\ cfg.RetryConfig # Nil
        retryBad == retryGiven /\ (cfg.RetryConfig.MaxRetryTimes < 1
                                   \/ cfg.RetryConfig.MaxRetryTimes > RetryLimit)
        trGiven == cfg # Nil /\ cfg.TransportConfig # Nil
        tr1 == IF trGiven /\ cfg.TransportConfig.ProxyUrl # Nil
               THEN [NewTransport EXCEPT !.Proxy = cfg.TransportConfig.ProxyUrl]
               ELSE NewTransport
        pem == IF trGiven THEN cfg.TransportConfig.TrustedCA ELSE ""
        file == ReadFile(pem)
        retry == IF retryGiven THEN cfg.RetryConfig
                 ELSE [MaxRetryTimes |-> DefaultMaxRetryTimes,
                       RetryInterval |-> DefaultRetryInterval]
    IN  IF retryBad
        THEN [client |-> Nil, err |-> ConfigError("maximum retry times value cannot be less than 1 and more than 5")]
        ELSE IF pem # "" /\ file.err # Nil
        THEN [client |-> Nil, err |-> file.err]
        ELSE IF pem # "" /\ ~AppendCertsFromPEM(file.bytes)
        THEN [client |-> Nil, err |-> ConfigError("failed to parse trusted CA certificate")]
        ELSE [client |-> [Transport |-> IF pem # "" THEN [tr1 EXCEPT !.RootCAs = "system+" \o pem] ELSE tr1,
                          RetryConfig |-> retry],
              err |-> Nil]

(***************************************************************************)
(* Plain generation: Config.ToHTTPClientConfig and NewHTTPClient.          *)
(***************************************************************************)
\* c is [HttpProxyUrl, ProxyCACertPath, MaxRetryTimes, RetryInterval].
ToHTTPClientConfig(c) ==
    IF c.MaxRetryTimes < 1
    THEN [cfg |-> Nil, err |-> ConfigError("MaxRetryTimes value is invalid")]
    ELSE LET retry == [MaxRetryTimes |-> c.MaxRetryTimes, RetryInterval |-> c.RetryInterval]
         IN IF Len(c.HttpProxyUrl) > 0
            THEN LET p == ParseRequestURI(c.HttpProxyUrl)
                 IN IF p.err # Nil
                    THEN [cfg |-> Nil, err |-> ConfigError("HttpProxyUrl value is invalid")]
                    ELSE [cfg |-> [ProxyConfig |-> [ProxyUrl |-> p.url,
                                                    ProxyCACertPath |-> c.ProxyCACertPath],
                                   RetryConfig |-> retry],
                          err |-> Nil]
            ELSE [cfg |-> [ProxyConfig |-> Nil, RetryConfig |-> retry], err |-> Nil]

\* cfg is Nil or [ProxyConfig, RetryConfig], each Nil or a record.
NewHTTPClientResultPlain(cfg) ==
    LET proxied == cfg # Nil /\ cfg.ProxyConfig # Nil /\ cfg.ProxyConfig.ProxyUrl # Nil
        useCA == proxied /\ ToLower(cfg.ProxyConfig.ProxyUrl.Scheme) = "https"
                         /\ Len(cfg.ProxyConfig.ProxyCACertPath) > 0
        pem == IF useCA THEN cfg.ProxyConfig.ProxyCACertPath ELSE ""
        file == ReadFile(pem)
        tr1 == IF useCA THEN [NewTransport EXCEPT !.RootCAs = "system+" \o pem] ELSE NewTransport
        tr2 == IF proxied THEN [tr1 EXCEPT !.Proxy = cfg.ProxyConfig.ProxyUrl] ELSE tr1
        retry == IF cfg # Nil /\ cfg.RetryConfig # Nil THEN cfg.RetryConfig
                 ELSE [MaxRetryTimes |-> DefaultMaxRetryTimes,
                       RetryInterval |-> DefaultRetryInterval]
    IN  IF useCA /\ file.err # Nil
        THEN [client |-> Nil, err |-> file.err]
        ELSE IF useCA /\ ~AppendCertsFromPEM(file.bytes)
        THEN [client |-> Nil, err |-> ConfigError("failed to parse proxy server CA certificate")]
        ELSE [client |-> [Transport |-> tr2, RetryConfig |-> retry], err |-> Nil]

(***************************************************************************)
(* Construction steps.                                                     *)
(***************************************************************************)
\* The application converts its Config (traced generation) and keeps the result.
ConvertConfig(c) ==
    /\ stage = "new"
    /\ LET r == NewHTTPClientConfig(c)
       IN /\ appcfg' = c
          /\ variant' = "traced"
          /\ config' = r.cfg
          /\ newErr' = r.err
          /\ stage' = IF r.err = Nil THEN "converted" ELSE "failed"
    /\ UNCHANGED <<client, callVars>>

ConvertConfigPlain(c) ==
    /\ stage = "new"
    /\ LET r == ToHTTPClientConfig(c)
       IN /\ appcfg' = c
          /\ variant' = "plain"
          /\ config' = r.cfg
          /\ newErr' = r.err
          /\ stage' = IF r.err = Nil THEN "converted" ELSE "failed"
    /\ UNCHANGED <<client, callVars>>

NewHTTPClient(cfg) ==
    /\ \/ stage = "new"
       \/ stage = "converted" /\ variant = "traced" /\ cfg = config
    /\ LET r == NewHTTPClientResult(cfg)
       IN /\ client' = r.client
          /\ newErr' = r.err
          /\ stage' = IF r.err = Nil THEN "ready" ELSE "failed"
    /\ config' = cfg
    /\ variant' = "traced"
    /\ UNCHANGED <<appcfg, callVars>>

NewHTTPClientPlain(cfg) ==
    /\ \/ stage = "new"
       \/ stage = "converted" /\ variant = "plain" /\ cfg = config
    /\ LET r == NewHTTPClientResultPlain(cfg)
       IN /\ client' = r.client
          /\ newErr' = r.err
          /\ stage' = IF r.err = Nil THEN "ready" ELSE "failed"
    /\ config' = cfg
    /\ variant' = "plain"
    /\ UNCHANGED <<appcfg, callVars>>

(***************************************************************************)
(* The request builder.                                                    *)
(***************************************************************************)
\* textproto.CanonicalMIMEHeaderKey, applied by http.Header.Set, on the keys
\* of the model.
HeaderKeys == {"x-id", "X-Id", "Accept"}
HeaderValues == {"1", "2"}

CanonicalMIMEHeaderKey(k) == IF k = "x-id" THEN "X-Id" ELSE k

\* http.Header.Add in the place of Set: the value is appended.
HeaderAdd(h, key, value) ==
    LET ck == CanonicalMIMEHeaderKey(key)
    IN [k \in (DOMAIN h) \cup {ck} |->
            IF k = ck THEN (IF ck \in DOMAIN h THEN Append(h[k], value) ELSE <<value>>)
            ELSE h[k]]

\* http.Header.Set: the key's values are replaced by the single value.
HeaderSet(h, key, value) ==
    LET ck == CanonicalMIMEHeaderKey(key)
    IN [k \in (DOMAIN h) \cup {ck} |-> IF k = ck THEN <<value>> ELSE h[k]]

\* SetHeader(key, value) is the option [key, value]; applying it is Header.Set.
SetHeader(h, opt) == HeaderSet(h, opt.key, opt.value)

EmptyHeader == [k \in {} |-> <<>>]

\* for _, opt := range r.Header { opt(req) }
RECURSIVE ApplyOptions(_, _)
ApplyOptions(h, opts) ==
    IF opts = <<>> THEN h
    ELSE ApplyOptions(SetHeader(h, Head(opts)), Tail(opts))

\* http.NewRequest rejects a method that is not a token.
ValidMethod(m) == m = "POST"

\* r is [Method, Header]; the result is [req, err].
buildHTTPRequest(r, attempt) ==
    IF ~ValidMethod(r.Method)
    THEN [req |-> Nil, err |-> [kind |-> "build", attempt |-> attempt]]
    ELSE [req |-> [Method |-> r.Method, Header |-> ApplyOptions(EmptyHeader, r.Header)],
          err |-> Nil]

(***************************************************************************)
(* One DoHttpRequest call c.                                               *)
(***************************************************************************)
Calls == {1, 2}
Hooks == {"GotRequestBody", "GotResponseStatus", "GotResponseBody"}
Statuses == {200, 404, 503}

MaxRetryTimes == client.RetryConfig.MaxRetryTimes
RetryInterval == client.RetryConfig.RetryInterval
Attempt(c) == retryTimes[c] + 1

\* A hook set kept in one place for all calls: the first call's.
HmsTraceOfClient(c) ==
    IF variant = "traced" /\ trace[1] # Nil
    THEN [owner |-> 1, hooks |-> trace[1].hooks]
    ELSE [owner |-> 1, hooks |-> {}]

\* ctx.Value(trace.HmsTraceKey): the hook set the call sees and whose it is.
\* The plain generation never looks.
HmsTraceOf(c) ==
    IF variant = "traced" /\ trace[c] # Nil
    THEN [owner |-> c, hooks |-> trace[c].hooks]
    ELSE [owner |-> c, hooks |-> {}]

\* if tr.<hook> != nil { tr.<hook>(...) }: the invocation, if any, as a sequence.
Invoke(c, hook) ==
    IF hook \in HmsTraceOf(c).hooks THEN <<hook>> ELSE <<>>

Record(c, evs) ==
    LET n == Attempt(c)
        RECURSIVE Stamp(_)
        Stamp(s) == IF s = <<>> THEN <<>> ELSE <<<<n, Head(s)>>>> \o Stamp(Tail(s))
    IN  events' = [events EXCEPT ![c] = @ \o Stamp(evs)]

Deliver(c, hs) ==
    LET n == Attempt(c)
        o == HmsTraceOf(c).owner
        RECURSIVE Stamp(_)
        Stamp(s) == IF s = <<>> THEN <<>>
                    ELSE <<[call |-> c, attempt |-> n, hook |-> Head(s)]>> \o Stamp(Tail(s))
    IN  hooked' = [hooked EXCEPT ![o] = @ \o Stamp(hs)]

\* What the three parts of doHttpRequest do, in order, on each path.
BuildEvents(c) == <<"build">> \o Invoke(c, "GotRequestBody")
FailEventsHooked(c) == <<"send", "sendError">> \o Invoke(c, "GotResponseStatus")
FailEvents(c) == <<"send", "sendError">>
RespondEvents(c) == <<"send", "response">> \o Invoke(c, "GotResponseStatus")
ReadFailEvents(c) == <<"readError", "close">>
ReadOkEvents(c) == <<"read">> \o Invoke(c, "GotResponseBody") \o <<"close">>

IsHook(e) == e \in Hooks
HooksOf(evs) == SelectSeq(evs, IsHook)

\* Entry of DoHttpRequest: the locals, and the first test of the loop condition.
DoHttpRequest(c, tr, r) ==
    /\ stage = "ready"
    /\ pc[c] = "idle"
    /\ MaxRetryTimes <= MaxRetryInput
    /\ trace' = [trace EXCEPT ![c] = tr]
    /\ req' = [req EXCEPT ![c] = r]
    /\ retryTimes' = [retryTimes EXCEPT ![c] = 0]
    /\ result' = [result EXCEPT ![c] = Nil]
    /\ err' = [err EXCEPT ![c] = Nil]
    /\ pc' = [pc EXCEPT ![c] = IF 0 < MaxRetryTimes THEN "build" ELSE "done"]
    /\ UNCHANGED <<ctorVars, ctxDone, cancelledAt, request, resp, openBodies, timer, waits,
                   history, events, hooked>>

\* doHttpRequest up to the transport send: build the request, GotRequestBody.
doHttpRequestBuild(c) ==
    /\ pc[c] = "build"
    /\ LET b == buildHTTPRequest(req[c], Attempt(c))
       IN IF b.err # Nil
          THEN /\ result' = [result EXCEPT ![c] = Nil]
               /\ err' = [err EXCEPT ![c] = b.err]
               /\ history' = [history EXCEPT ![c] = Append(@, "build")]
               /\ pc' = [pc EXCEPT ![c] = "after"]
               /\ Record(c, <<"buildError">>)
               /\ UNCHANGED <<request, hooked>>
          ELSE /\ request' = [request EXCEPT ![c] = b.req]
               /\ pc' = [pc EXCEPT ![c] = "send"]
               /\ Record(c, BuildEvents(c))
               /\ Deliver(c, HooksOf(BuildEvents(c)))
               /\ UNCHANGED <<result, err, history>>
    /\ UNCHANGED <<ctorVars, ctxDone, cancelledAt, trace, req, retryTimes, resp, openBodies,
                   timer, waits>>

\* A transport that answers only calls without a GotRequestBody hook.
DoCanRespondUnhooked(c) ==
    /\ ~(variant = "traced" /\ ctxDone[c])
    /\ "GotRequestBody" \notin HmsTraceOf(c).hooks

\* A transport that does not look at the request's context.
DoCanRespondAnyContext(c) == variant \in {"traced", "plain"}

\* c.Client.Do(request.WithContext(ctx)) can deliver a response unless the
\* request's context is already done; the plain generation sends without it.
DoCanRespond(c) == ~(variant = "traced" /\ ctxDone[c])

ClientDoFail(c) ==
    /\ pc[c] = "send"
    /\ result' = [result EXCEPT ![c] = Nil]
    /\ err' = [err EXCEPT ![c] = [kind |-> "transport", attempt |-> Attempt(c)]]
    /\ history' = [history EXCEPT ![c] = Append(@, "transport")]
    /\ pc' = [pc EXCEPT ![c] = "after"]
    /\ Record(c, FailEvents(c))
    /\ Deliver(c, HooksOf(FailEvents(c)))
    /\ UNCHANGED <<ctorVars, ctxDone, cancelledAt, trace, req, retryTimes, request, resp,
                   openBodies, timer, waits>>

ClientDoRespond(c, status) ==
    /\ pc[c] = "send"
    /\ DoCanRespond(c)
    /\ resp' = [resp EXCEPT ![c] = [StatusCode |-> status, attempt |-> Attempt(c)]]
    /\ openBodies' = [openBodies EXCEPT ![c] = @ + 1]
    /\ pc' = [pc EXCEPT ![c] = "read"]
    /\ Record(c, RespondEvents(c))
    /\ Deliver(c, HooksOf(RespondEvents(c)))
    /\ UNCHANGED <<ctorVars, ctxDone, cancelledAt, trace, req, retryTimes, result, err, request,
                   timer, waits, history>>

\* The read fails and the body is left open (a Close deferred after the check).
ReadAllFailNoClose(c) ==
    /\ pc[c] = "read"
    /\ result' = [result EXCEPT ![c] = Nil]
    /\ err' = [err EXCEPT ![c] = [kind |-> "read", attempt |-> Attempt(c)]]
    /\ history' = [history EXCEPT ![c] = Append(@, "read")]
    /\ resp' = [resp EXCEPT ![c] = Nil]
    /\ pc' = [pc EXCEPT ![c] = "after"]
    /\ Record(c, <<"readError">>)
    /\ UNCHANGED <<ctorVars, ctxDone, cancelledAt, trace, req, retryTimes, request, openBodies,
                   timer, waits, hooked>>

\* The read fails and the response read so far is returned with the error.
ReadAllFailKeepsResponse(c) ==
    /\ pc[c] = "read"
    /\ result' = [result EXCEPT ![c] = [Status |-> resp[c].StatusCode,
                                        attempt |-> resp[c].attempt]]
    /\ err' = [err EXCEPT ![c] = [kind |-> "read", attempt |-> Attempt(c)]]
    /\ history' = [history EXCEPT ![c] = Append(@, "read")]
    /\ resp' = [resp EXCEPT ![c] = Nil]
    /\ openBodies' = [openBodies EXCEPT ![c] = @ - 1]
    /\ pc' = [pc EXCEPT ![c] = "after"]
    /\ Record(c, ReadFailEvents(c))
    /\ UNCHANGED <<ctorVars, ctxDone, cancelledAt, trace, req, retryTimes, request, timer,
                   waits, hooked>>

\* ioutil.ReadAll(resp.Body) fails; the deferred Close runs at the return.
ReadAllFail(c) ==
    /\ pc[c] = "read"
    /\ result' = [result EXCEPT ![c] = Nil]
    /\ err' = [err EXCEPT ![c] = [kind |-> "read", attempt |-> Attempt(c)]]
    /\ history' = [history EXCEPT ![c] = Append(@, "read")]
    /\ resp' = [resp EXCEPT ![c] = Nil]
    /\ openBodies' = [openBodies EXCEPT ![c] = @ - 1]
    /\ pc' = [pc EXCEPT ![c] = "after"]
    /\ Record(c, ReadFailEvents(c))
    /\ Deliver(c, HooksOf(ReadFailEvents(c)))
    /\ UNCHANGED <<ctorVars, ctxDone, cancelledAt, trace, req, retryTimes, request, timer, waits>>

\* The body is read: GotResponseBody, the PushResponse, the deferred Close.
ReadAllOk(c) ==
    /\ pc[c] = "read"
    /\ result' = [result EXCEPT ![c] = [Status |-> resp[c].StatusCode,
                                        attempt |-> resp[c].attempt]]
    /\ err' = [err EXCEPT ![c] = Nil]
    /\ history' = [history EXCEPT ![c] = Append(@, "ok")]
    /\ resp' = [resp EXCEPT ![c] = Nil]
    /\ openBodies' = [openBodies EXCEPT ![c] = @ - 1]
    /\ pc' = [pc EXCEPT ![c] = "after"]
    /\ Record(c, ReadOkEvents(c))
    /\ Deliver(c, HooksOf(ReadOkEvents(c)))
    /\ UNCHANGED <<ctorVars, ctxDone, cancelledAt, trace, req, retryTimes, request, timer, waits>>

BreakOnFailure(res, e) == e # Nil
BreakOnGoodStatus(res, e) == e = Nil /\ res.Status < 500

\* if err == nil { break }
BreakOnSuccess(res, e) == e = Nil

WaitsForRetryAlways(interval) == interval >= 0

\* pendingForRetry enters the select only with a positive interval.
WaitsForRetry(interval) == interval > 0

\* The rest of the loop body after doHttpRequest returned: break on success,
\* else pendingForRetry, which either starts its timer or returns false.
AfterAttempt(c) ==
    /\ pc[c] = "after"
    /\ IF BreakOnSuccess(result[c], err[c])
       THEN /\ pc' = [pc EXCEPT ![c] = "done"]
            /\ UNCHANGED <<timer, waits>>
       ELSE IF WaitsForRetry(RetryInterval)
       THEN /\ pc' = [pc EXCEPT ![c] = "wait"]
            /\ timer' = [timer EXCEPT ![c] = "armed"]
            /\ waits' = [waits EXCEPT ![c] = @ + 1]
       ELSE /\ pc' = [pc EXCEPT ![c] = "done"]
            /\ UNCHANGED <<timer, waits>>
    /\ UNCHANGED <<ctorVars, ctxDone, cancelledAt, trace, req, retryTimes, result, err, request,
                   resp, openBodies, history, events, hooked>>

SelectReadyRetriesOnDone(c) ==
    (IF ctxDone[c] THEN {TRUE} ELSE {}) \cup (IF timer[c] = "fired" THEN {TRUE} ELSE {})

\* The ready cases of the select and what pendingForRetry returns for each.
SelectReady(c) ==
    (IF ctxDone[c] THEN {FALSE} ELSE {}) \cup (IF timer[c] = "fired" THEN {TRUE} ELSE {})

LoopContinuesOneMore(n) == n <= MaxRetryTimes

\* The loop condition after retryTimes++.
LoopContinues(n) == n < MaxRetryTimes

\* pendingForRetry returns from its select; the loop breaks or goes on. A
\* timer the select did not receive from stays as it is (time.After timers are
\* not stopped).
pendingForRetry(c) ==
    /\ pc[c] = "wait"
    /\ \E again \in SelectReady(c) :
          IF again
          THEN /\ retryTimes' = [retryTimes EXCEPT ![c] = @ + 1]
               /\ pc' = [pc EXCEPT ![c] = IF LoopContinues(retryTimes[c] + 1)
                                          THEN "build" ELSE "done"]
               /\ timer' = [timer EXCEPT ![c] = "off"]
          ELSE /\ pc' = [pc EXCEPT ![c] = "done"]
               /\ UNCHANGED <<retryTimes, timer>>
    /\ UNCHANGED <<ctorVars, ctxDone, cancelledAt, trace, req, result, err, request, resp,
                   openBodies, waits, history, events, hooked>>

\* The runtime timer of time.After(RetryInterval) fires.
TimerFires(c) ==
    /\ pc[c] = "wait"
    /\ timer[c] = "armed"
    /\ timer' = [timer EXCEPT ![c] = "fired"]
    /\ UNCHANGED <<ctorVars, pc, ctxDone, cancelledAt, trace, req, retryTimes, result, err,
                   request, resp, openBodies, waits, history, events, hooked>>

\* Attempts a call has finished, and attempts it has started: those finished
\* and the one in progress.
Attempts(c) == Len(history[c])
Started(c) == Attempts(c) + (IF pc[c] \in {"build", "send", "read"} THEN 1 ELSE 0)

\* The caller cancels the call's context.
Cancel(c) ==
    /\ stage = "ready"
    /\ pc[c] # "done"
    /\ ~ctxDone[c]
    /\ ctxDone' = [ctxDone EXCEPT ![c] = TRUE]
    /\ cancelledAt' = [cancelledAt EXCEPT ![c] = Started(c)]
    /\ UNCHANGED <<ctorVars, pc, trace, req, retryTimes, result, err, request,
                   resp, openBodies, timer, waits, history, events, hooked>>

(***************************************************************************)
(* Inputs and specifications.                                              *)
(***************************************************************************)
RetryInputs ==
    {Nil} \cup [MaxRetryTimes : (0..MaxRetryInput) \cup {RetryLimit, RetryLimit + 1},
                RetryInterval : {0, 1}]

UrlInputs == {Nil, [Scheme |-> "http"], [Scheme |-> "https"]}

\* Retry configurations are varied with no transport configuration, transport
\* configurations with the retry configurations below.
RetryWithTransport ==
    {Nil, [MaxRetryTimes |-> 0, RetryInterval |-> 0],
     [MaxRetryTimes |-> RetryLimit + 1, RetryInterval |-> 0]}

ClientConfigs ==
    {Nil} \cup [TransportConfig : {Nil}, RetryConfig : RetryInputs]
          \cup [TransportConfig : [ProxyUrl : UrlInputs, TrustedCA : CAPaths],
                RetryConfig : RetryWithTransport]

ClientConfigsPlain ==
    {Nil} \cup [ProxyConfig : {Nil}, RetryConfig : RetryInputs]
          \cup [ProxyConfig : [ProxyUrl : UrlInputs, ProxyCACertPath : CAPaths],
                RetryConfig : RetryWithTransport]

AppConfigs ==
    {Nil} \cup [ProxyUrl : ProxyStrings, TrustedCA : CAPaths,
                MaxRetryTimes : {0, 1}, RetryInterval : {0}]

AppConfigsPlain ==
    [HttpProxyUrl : ProxyStrings, ProxyCACertPath : CAPaths,
     MaxRetryTimes : {0, 1}, RetryInterval : {0}]

TraceInputs == {Nil} \cup [hooks : SUBSET Hooks]

Option(k, v) == [key |-> k, value |-> v]

Requests ==
    [Method : {"POST", "PO ST"},
     Header : {<<Option("x-id", "1"), Option("X-Id", "2")>>}]

Init ==
    /\ stage = "new"
    /\ variant = "none"
    /\ appcfg = Nil
    /\ config = Nil
    /\ client = Nil
    /\ newErr = Nil
    /\ pc = [c \in Calls |-> "idle"]
    /\ ctxDone = [c \in Calls |-> FALSE]
    /\ cancelledAt = [c \in Calls |-> 0]
    /\ trace = [c \in Calls |-> Nil]
    /\ req = [c \in Calls |-> Nil]
    /\ retryTimes = [c \in Calls |-> 0]
    /\ result = [c \in Calls |-> Nil]
    /\ err = [c \in Calls |-> Nil]
    /\ request = [c \in Calls |-> Nil]
    /\ resp = [c \in Calls |-> Nil]
    /\ openBodies = [c \in Calls |-> 0]
    /\ timer = [c \in Calls |-> "off"]
    /\ waits = [c \in Calls |-> 0]
    /\ history = [c \in Calls |-> <<>>]
    /\ events = [c \in Calls |-> <<>>]
    /\ hooked = [c \in Calls |-> <<>>]

Construct ==
    \/ \E c \in AppConfigs : ConvertConfig(c)
    \/ \E c \in AppConfigsPlain : ConvertConfigPlain(c)
    \/ \E cfg \in ClientConfigs : NewHTTPClient(cfg)
    \/ \E cfg \in ClientConfigsPlain : NewHTTPClientPlain(cfg)

Step(c) ==
    \/ doHttpRequestBuild(c)
    \/ ClientDoFail(c)
    \/ \E status \in Statuses : ClientDoRespond(c, status)
    \/ ReadAllFail(c)
    \/ ReadAllOk(c)
    \/ AfterAttempt(c)
    \/ pendingForRetry(c)
    \/ TimerFires(c)
    \/ Cancel(c)

\* One caller.
Next ==
    \/ Construct
    \/ \E tr \in TraceInputs, r \in Requests : DoHttpRequest(1, tr, r)
    \/ Step(1)

Spec == Init /\ [][Next]_vars

\* The steps of a call that the program and its environment take on their
\* own: the goroutine runs, a transport send and a body read complete, a timer
\* fires. Cancellation is the caller's choice and is not among them.
Progress(c) ==
    \/ doHttpRequestBuild(c)
    \/ ClientDoFail(c)
    \/ \E status \in Statuses : ClientDoRespond(c, status)
    \/ ReadAllFail(c)
    \/ ReadAllOk(c)
    \/ AfterAttempt(c)
    \/ pendingForRetry(c)
    \/ TimerFires(c)

\* The one-caller program with a running goroutine, a transport and body read
\* that complete, and timers that fire.
SpecLive == Spec /\ WF_vars(Progress(1))

\* The request builder alone: one call, every sequence of at most MaxOptions
\* header options.
Options == [key : HeaderKeys, value : HeaderValues]
OptionSeqs == UNION {[1..n -> Options] : n \in 0..MaxOptions}
BuildRequests == [Method : {"POST", "PO ST"}, Header : OptionSeqs]

NextBuild ==
    \/ \E cfg \in {Nil} : NewHTTPClient(cfg)
    \/ \E r \in BuildRequests : DoHttpRequest(1, Nil, r)
    \/ doHttpRequestBuild(1)

SpecBuild == Init /\ [][NextBuild]_vars

\* Two callers on one client, each with its own context and hook set.
ConcRetryInputs == [MaxRetryTimes : 1..MaxRetryConc, RetryInterval : {0, 1}]
ConcTraces(c) == IF c = 1 THEN {[hooks |-> Hooks]} ELSE {Nil, [hooks |-> {"GotResponseStatus"}]}
ConcRequests == [Method : {"POST"}, Header : {<<>>}]

NextConc ==
    \/ \E r \in ConcRetryInputs : NewHTTPClient([TransportConfig |-> Nil, RetryConfig |-> r])
    \/ \E r \in ConcRetryInputs : NewHTTPClientPlain([ProxyConfig |-> Nil, RetryConfig |-> r])
    \/ \E c \in Calls : \E tr \in ConcTraces(c), r \in ConcRequests : DoHttpRequest(c, tr, r)
    \/ \E c \in Calls :
          \/ doHttpRequestBuild(c)
          \/ ClientDoFail(c)
          \/ ClientDoRespond(c, 200)
          \/ ReadAllFail(c)
          \/ ReadAllOk(c)
          \/ AfterAttempt(c)
          \/ pendingForRetry(c)
          \/ TimerFires(c)
          \/ Cancel(c)

SpecConc == Init /\ [][NextConc]_vars

\* Two runs of one call compared: what a call is and does apart from its hook
\* set and the hook invocations themselves.
NotHookEvent(e) == ~IsHook(e[2])
View(c) ==
    <<pc[c], ctxDone[c], cancelledAt[c], req[c], retryTimes[c], result[c], err[c], request[c],
      resp[c], openBodies[c], timer[c], waits[c], history[c],
      SelectSeq(events[c], NotHookEvent)>>

\* Call 2 repeats the step call 1 took: same request, same transport and
\* timer outcome, same cancellation; one of the two calls carries no trace value.
Follow ==
    /\ View(1) # View(2)
    /\ \/ \E tr \in TraceInputs :
             /\ (trace[1] = Nil \/ tr = Nil)
             /\ DoHttpRequest(2, tr, req[1])
       \/ Step(2)
    /\ View(2)' = View(1)

PairRetryInputs == [MaxRetryTimes : 1..MaxRetryConc, RetryInterval : {0, 1}]

\* Call 1 takes any step when the two runs agree; call 2 then has to follow.
NextPair ==
    \/ \E r \in PairRetryInputs : NewHTTPClient([TransportConfig |-> Nil, RetryConfig |-> r])
    \/ View(1) = View(2) /\ \E tr \in TraceInputs, r \in Requests : DoHttpRequest(1, tr, r)
    \/ View(1) = View(2) /\ Step(1)
    \/ Follow

SpecPair == Init /\ [][NextPair]_vars

(***************************************************************************)
(* Properties.                                                             *)
(***************************************************************************)
Ready == stage = "ready"
Done(c) == Ready /\ pc[c] = "done"
Last(s) == s[Len(s)]
AllFailed(c) == \A i \in DOMAIN history[c] : history[c][i] # "ok"

\* C1 as stated: a call on a client with MaxRetryTimes = N >= 1 and any
\* RetryInterval >= 0, never cancelled, whose attempts all fail, returns after
\* exactly N attempts with the error of attempt N.
C1_ExactlyNAttemptsAnyInterval ==
    \A c \in Calls :
        (Done(c) /\ MaxRetryTimes >= 1 /\ ~ctxDone[c] /\ AllFailed(c))
            => (Attempts(c) = MaxRetryTimes /\ err[c] # Nil
                /\ err[c].attempt = MaxRetryTimes)

\* C1 amended: with RetryInterval > 0 such a call makes exactly N attempts and
\* returns the error of attempt N; with RetryInterval = 0 it makes exactly one
\* attempt and returns that attempt's error.
C1_ExactlyNAttempts ==
    \A c \in Calls :
        (Done(c) /\ MaxRetryTimes >= 1 /\ ~ctxDone[c] /\ AllFailed(c))
            => LET n == IF RetryInterval > 0 THEN MaxRetryTimes ELSE 1
               IN  /\ Attempts(c) = n
                   /\ result[c] = Nil
                   /\ err[c] # Nil
                   /\ err[c] = [kind |-> history[c][n], attempt |-> n]

C1_Witness ==
    \E c \in Calls :
        /\ Done(c) /\ ~ctxDone[c] /\ AllFailed(c)
        /\ MaxRetryTimes = 3 /\ RetryInterval > 0
        /\ history[c] = <<"transport", "read", "transport">>
        /\ err[c].attempt = 3

\* C2: whenever attempt k succeeds (after attempts 1..k-1 failed), k <= N, the
\* call has made exactly k attempts, holds attempt k's response and a nil error,
\* and neither an attempt nor a wait follows: k is the last attempt, the k-1
\* waits are those between the earlier attempts and the call only returns.
C2_SuccessAtKStops ==
    \A c \in Calls : \A k \in DOMAIN history[c] :
        history[c][k] = "ok"
            => /\ k = Attempts(c)
               /\ k <= MaxRetryTimes
               /\ retryTimes[c] = k - 1
               /\ \A i \in 1..(k - 1) : history[c][i] # "ok"
               /\ result[c] # Nil /\ result[c].attempt = k
               /\ err[c] = Nil
               /\ waits[c] = k - 1
               /\ pc[c] \in {"after", "done"}
               /\ timer[c] = "off"

C2_Witness ==
    \E c \in Calls :
        /\ Done(c)
        /\ MaxRetryTimes = 3
        /\ history[c] = <<"transport", "ok">>
        /\ result[c] # Nil /\ result[c].attempt = 2

\* C3: when the context is done while the call is in the inter-attempt wait and
\* the timer has not fired, pendingForRetry can return at once, and the step
\* that ends the wait starts no attempt: the call returns the error of the most
\* recent attempt.
C3_CancelDuringWaitAborts ==
    /\ [](\A c \in Calls :
            (pc[c] = "wait" /\ ctxDone[c]) => ENABLED pendingForRetry(c))
    /\ [][\A c \in Calls :
            (pc[c] = "wait" /\ ctxDone[c] /\ timer[c] = "armed" /\ pc'[c] # "wait")
                => /\ pc'[c] = "done"
                   /\ history'[c] = history[c]
                   /\ retryTimes'[c] = retryTimes[c]
                   /\ result'[c] = Nil
                   /\ err'[c] = err[c]
                   /\ err[c] = [kind |-> Last(history[c]), attempt |-> Attempts(c)]]_vars

\* A call that returned from a wait whose timer never fired.
C3_Witness ==
    \E c \in Calls :
        /\ Done(c) /\ ctxDone[c] /\ timer[c] = "armed"
        /\ MaxRetryTimes = 3 /\ Attempts(c) = 1
        /\ err[c] = [kind |-> "transport", attempt |-> 1]

\* C4 as stated: with RetryInterval = 0 and MaxRetryTimes > 1 a call whose first
\* attempt failed awaits no delay and still makes a second attempt.
C4_ZeroIntervalStillRetries ==
    \A c \in Calls :
        (Done(c) /\ RetryInterval = 0 /\ MaxRetryTimes > 1
                 /\ Attempts(c) >= 1 /\ history[c][1] # "ok")
            => (waits[c] = 0 /\ Attempts(c) >= 2)

\* C4 amended: with RetryInterval = 0 and MaxRetryTimes > 1 the call never
\* waits, and after a failed first attempt it makes no second attempt: it
\* returns the first attempt's error (the attempt is skipped with the wait).
C4_ZeroIntervalNoWaitNoRetry ==
    \A c \in Calls :
        (Ready /\ RetryInterval = 0 /\ MaxRetryTimes > 1)
            => /\ waits[c] = 0
               /\ pc[c] # "wait"
               /\ timer[c] = "off"
               /\ Attempts(c) <= 1
               /\ (Done(c) /\ Attempts(c) = 1 /\ history[c][1] # "ok")
                     => (result[c] = Nil /\ err[c] = [kind |-> history[c][1], attempt |-> 1])

C4_Witness ==
    \E c \in Calls :
        /\ Done(c) /\ RetryInterval = 0 /\ MaxRetryTimes = 3 /\ ~ctxDone[c]
        /\ history[c] = <<"transport">>
        /\ waits[c] = 0

\* C5: an attempt that received a response and read its body yields that
\* response, with the status received, and a nil error, and the loop then
\* returns it without a wait or another attempt, whatever the status.
C5_StatusNeverRetried ==
    [][\A c \in Calls :
        /\ (pc[c] = "read" /\ history'[c] = Append(history[c], "ok"))
              => /\ result'[c] = [Status |-> resp[c].StatusCode, attempt |-> Attempt(c)]
                 /\ err'[c] = Nil
                 /\ pc'[c] = "after"
        /\ (pc[c] = "after" /\ Last(history[c]) = "ok" /\ pc'[c] # "after")
              => /\ pc'[c] = "done"
                 /\ result'[c] = result[c]
                 /\ result[c].Status \in Statuses
                 /\ err'[c] = Nil
                 /\ waits'[c] = waits[c]
                 /\ history'[c] = history[c]]_vars

C5_Witness ==
    \E c \in Calls :
        /\ Done(c) /\ MaxRetryTimes = 3 /\ RetryInterval > 0
        /\ history[c] = <<"ok">>
        /\ result[c] = [Status |-> 503, attempt |-> 1]
        /\ err[c] = Nil

Constructed == stage \in {"ready", "failed"}

\* C6: a constructor given a retry configuration whose MaxRetryTimes is below 1
\* (or, in the traced generation, above RetryLimit) returns an error and no
\* client, so that every client has MaxRetryTimes >= 1.
C6_BadRetryRangeRejected ==
    /\ (Constructed /\ config # Nil /\ config.RetryConfig # Nil
          /\ (config.RetryConfig.MaxRetryTimes < 1
               \/ (variant = "traced" /\ config.RetryConfig.MaxRetryTimes > RetryLimit)))
         => (client = Nil /\ newErr # Nil /\ stage = "failed")
    /\ client # Nil => client.RetryConfig.MaxRetryTimes >= 1

\* The trust-anchor path the application or the caller configured, "" if none.
ConfiguredCA ==
    IF appcfg # Nil
    THEN (IF variant = "traced" THEN appcfg.TrustedCA ELSE appcfg.ProxyCACertPath)
    ELSE IF config = Nil THEN ""
    ELSE IF variant = "traced"
         THEN (IF config.TransportConfig = Nil THEN "" ELSE config.TransportConfig.TrustedCA)
         ELSE (IF config.ProxyConfig = Nil THEN "" ELSE config.ProxyConfig.ProxyCACertPath)

Unparsable(path) ==
    path # "" /\ ReadFile(path).err = Nil /\ ~(ReadFile(path).bytes = "CERTIFICATE")

\* C7 as stated: whenever a trust-anchor path is configured and its file holds
\* no parsable certificate, construction ends with an error and no client,
\* whatever the proxy.
C7_GarbageCAAlwaysRejected ==
    (stage \in {"ready", "failed"} /\ Unparsable(ConfiguredCA))
        => (client = Nil /\ newErr # Nil /\ stage = "failed")

\* The trust-anchor path NewHTTPClient looks at: in the traced generation the
\* TrustedCA of a non-nil TransportConfig (NewHTTPClientConfig supplies one only
\* with a proxy URL); in the plain generation the ProxyCACertPath of a proxy
\* whose URL has the scheme https.
ConsultedCA ==
    IF config = Nil THEN ""
    ELSE IF variant = "traced"
         THEN (IF config.TransportConfig = Nil THEN "" ELSE config.TransportConfig.TrustedCA)
         ELSE (IF config.ProxyConfig = Nil \/ config.ProxyConfig.ProxyUrl = Nil
                  \/ config.ProxyConfig.ProxyUrl.Scheme # "https"
               THEN "" ELSE config.ProxyConfig.ProxyCACertPath)

\* C7 amended: whenever the trust-anchor path NewHTTPClient consults holds no
\* parsable certificate, construction ends with an error and no client; a
\* configured path the constructor does not consult (traced: no proxy URL in
\* the application Config; plain: no proxy or a proxy that is not https) is
\* not read and does not fail construction.
C7_ConsultedGarbageCARejected ==
    /\ (Constructed /\ Unparsable(ConsultedCA))
          => (client = Nil /\ newErr # Nil /\ stage = "failed")
    /\ (Constructed /\ ConsultedCA = "" /\ config # Nil
          /\ (config.RetryConfig = Nil \/ config.RetryConfig.MaxRetryTimes \in 1..RetryLimit))
          => (client # Nil /\ newErr = Nil /\ client.Transport.RootCAs = "system")

C7_Witness ==
    /\ stage = "failed" /\ variant = "traced" /\ client = Nil
    /\ config # Nil /\ config.TransportConfig # Nil
    /\ config.TransportConfig.TrustedCA = "junk.pem"
    /\ config.RetryConfig = Nil
    /\ newErr = ConfigError("failed to parse trusted CA certificate")

Rank(e) ==
    CASE e = "build" -> 0
      [] e \in {"buildError", "GotRequestBody"} -> 1
      [] e = "send" -> 2
      [] e \in {"response", "sendError"} -> 3
      [] e = "GotResponseStatus" -> 4
      [] e \in {"read", "readError"} -> 5
      [] e = "GotResponseBody" -> 6
      [] e = "close" -> 7

EventsOfAttempt(c, n) == {events[c][i][2] : i \in {j \in DOMAIN events[c] : events[c][j][1] = n}}
Received(c, hook) ==
    Cardinality({i \in DOMAIN hooked[c] : hooked[c][i].hook = hook /\ hooked[c][i].call = c})

\* C8: within each attempt the events come in the fixed order GotRequestBody,
\* send, response, GotResponseStatus, body read, GotResponseBody, each at most
\* once; an attached hook fires at its point; an attempt whose send failed
\* fires neither GotResponseStatus nor GotResponseBody; and when attempts 1-2
\* fail in the transport and attempt 3 succeeds, an attached GotResponseStatus
\* and an attached GotResponseBody have each been invoked exactly once.
C8_HookOrder ==
    \A c \in Calls :
        /\ \A i, j \in DOMAIN events[c] :
              i < j => /\ events[c][i][1] <= events[c][j][1]
                       /\ events[c][i][1] = events[c][j][1]
                             => Rank(events[c][i][2]) < Rank(events[c][j][2])
        /\ \A n \in 1..Attempts(c) :
              LET evs == EventsOfAttempt(c, n)
                  on == HmsTraceOf(c).hooks
              IN  /\ "sendError" \in evs
                        => evs \cap {"GotResponseStatus", "GotResponseBody"} = {}
                  /\ "send" \in evs => ("GotRequestBody" \in evs <=> "GotRequestBody" \in on)
                  /\ "response" \in evs
                        => ("GotResponseStatus" \in evs <=> "GotResponseStatus" \in on)
                  /\ "read" \in evs
                        => ("GotResponseBody" \in evs <=> "GotResponseBody" \in on)
                  /\ evs \cap Hooks \subseteq on
        /\ history[c] = <<"transport", "transport", "ok">>
              => \A h \in {"GotResponseStatus", "GotResponseBody"} :
                    Received(c, h) = (IF h \in HmsTraceOf(c).hooks THEN 1 ELSE 0)

C8_Witness ==
    \E c \in Calls :
        /\ Done(c) /\ variant = "traced"
        /\ trace[c] # Nil /\ trace[c].hooks = Hooks
        /\ history[c] = <<"transport", "transport", "ok">>
        /\ Received(c, "GotRequestBody") = 3
        /\ Received(c, "GotResponseStatus") = 1
        /\ Received(c, "GotResponseBody") = 1

CanonicalKeys(opts) == {CanonicalMIMEHeaderKey(opts[i].key) : i \in DOMAIN opts}
LastSetting(opts, k) ==
    CHOOSE i \in DOMAIN opts :
        /\ CanonicalMIMEHeaderKey(opts[i].key) = k
        /\ \A j \in DOMAIN opts : CanonicalMIMEHeaderKey(opts[j].key) = k => j <= i
Twice(opts, i) == SubSeq(opts, 1, i) \o SubSeq(opts, i, Len(opts))

\* C9: the header of a built request has exactly the (canonical) keys the
\* options set, each holding the single value of the last option that set it,
\* and applying any one option twice in a row builds the same header.
C9_LastHeaderOptionWins ==
    \A c \in Calls :
        request[c] # Nil
            => LET opts == req[c].Header
                   h == request[c].Header
               IN  /\ DOMAIN h = CanonicalKeys(opts)
                   /\ \A k \in DOMAIN h : h[k] = <<opts[LastSetting(opts, k)].value>>
                   /\ \A i \in DOMAIN opts :
                         ApplyOptions(EmptyHeader, Twice(opts, i)) = h

C9_Witness ==
    \E c \in Calls :
        /\ pc[c] = "send" /\ request[c] # Nil
        /\ req[c].Header = <<Option("x-id", "1"), Option("X-Id", "2")>>
        /\ request[c].Header = [k \in {"X-Id"} |-> <<"2">>]

CallState(c) ==
    <<pc[c], ctxDone[c], cancelledAt[c], trace[c], req[c], retryTimes[c], result[c], err[c], request[c],
      resp[c], openBodies[c], timer[c], waits[c], history[c], events[c], hooked[c]>>

\* The hook invocations among a call's events, as its hook set must get them.
RECURSIVE HookCalls(_, _)
HookCalls(c, evs) ==
    IF evs = <<>> THEN <<>>
    ELSE (IF Head(evs)[2] \in Hooks
          THEN <<[call |-> c, attempt |-> Head(evs)[1], hook |-> Head(evs)[2]]>>
          ELSE <<>>) \o HookCalls(c, Tail(evs))

\* C10: with two calls running on one client, each hook set receives exactly
\* the invocations of its own call's attempts; a step of one call changes
\* nothing of the other call nor of the client; and a call that returns has
\* the attempt count and result its own attempts and its own context give
\* it: the last attempt's pair, after the first success, or (context not
\* done) after MaxRetryTimes failures, or one failure when RetryInterval = 0.
C10_ConcurrentCallsIndependent ==
    /\ [](\A c \in Calls :
            /\ hooked[c] = HookCalls(c, events[c])
            /\ \A i \in DOMAIN hooked[c] :
                  hooked[c][i].call = c /\ hooked[c][i].hook \in HmsTraceOf(c).hooks
            /\ Done(c) =>
                  /\ Attempts(c) >= 1 /\ Attempts(c) <= MaxRetryTimes
                  /\ \A i \in 1..(Attempts(c) - 1) : history[c][i] # "ok"
                  /\ IF Last(history[c]) = "ok"
                     THEN err[c] = Nil /\ result[c] # Nil /\ result[c].attempt = Attempts(c)
                     ELSE /\ result[c] = Nil
                          /\ err[c] = [kind |-> Last(history[c]), attempt |-> Attempts(c)]
                          /\ ~ctxDone[c] =>
                                Attempts(c) = (IF RetryInterval > 0 THEN MaxRetryTimes ELSE 1))
    /\ [][/\ Ready => client' = client
          /\ \A c, d \in Calls :
                (c # d /\ CallState(c)' # CallState(c)) => CallState(d)' = CallState(d)]_vars

\* Both calls ran interleaved to different ends, each hook set with its own
\* call's invocations.
C10_Witness ==
    /\ Done(1) /\ Done(2) /\ variant = "traced"
    /\ MaxRetryTimes = 2 /\ RetryInterval > 0
    /\ history[1] = <<"transport", "ok">>
    /\ history[2] = <<"ok">>
    /\ trace[2] # Nil
    /\ Len(hooked[1]) = 4
    /\ hooked[2] = <<[call |-> 2, attempt |-> 1, hook |-> "GotResponseStatus"]>>

\* C11: no wait follows the final attempt: a call whose attempt numbered
\* MaxRetryTimes has failed is never in the inter-attempt wait, and a call that
\* returned after n attempts has begun exactly n-1 waits.
C11_NoWaitAfterFinalAttempt ==
    \A c \in Calls :
        (Ready /\ MaxRetryTimes >= 1)
            => /\ (Attempts(c) = MaxRetryTimes) => pc[c] # "wait"
               /\ (Done(c) /\ Attempts(c) >= 1) => waits[c] = Attempts(c) - 1

\* C12: with RetryInterval = 0 a failed attempt ends the call at once, for
\* every MaxRetryTimes: pendingForRetry starts no timer and returns false, the
\* call makes a single attempt and returns its error.
C12_ZeroIntervalDisablesRetry ==
    /\ [](\A c \in Calls :
            (Ready /\ RetryInterval = 0)
                => /\ retryTimes[c] = 0
                   /\ Attempts(c) <= 1
                   /\ (Done(c) /\ MaxRetryTimes >= 1)
                        => /\ Attempts(c) = 1
                           /\ history[c][1] # "ok"
                                => err[c] = [kind |-> history[c][1], attempt |-> 1])
    /\ [][\A c \in Calls :
            (Ready /\ RetryInterval = 0 /\ pc[c] = "after" /\ err[c] # Nil
                   /\ pc'[c] # "after")
                => /\ pc'[c] = "done"
                   /\ timer'[c] = "off"
                   /\ waits'[c] = 0
                   /\ err'[c] = err[c]
                   /\ result'[c] = Nil]_vars

C12_Witness ==
    \E c \in Calls :
        /\ Done(c) /\ RetryInterval = 0 /\ MaxRetryTimes = 2
        /\ history[c] = <<"read">>
        /\ err[c] = [kind |-> "read", attempt |-> 1]
        /\ timer[c] = "off"

\* C13: a request-build error is never retried: an attempt that failed in
\* buildHTTPRequest is the last attempt of its call and no wait follows it.
C13_BuildErrorNotRetried ==
    \A c \in Calls : \A k \in DOMAIN history[c] :
        history[c][k] = "build"
            => /\ k = Attempts(c)
               /\ pc[c] \in {"after", "done"}
               /\ waits[c] = k - 1
               /\ err[c] = [kind |-> "build", attempt |-> k]

\* C14: a call holds an open response body only between the response and the
\* end of the body read of the same attempt: one body while reading, none when
\* an attempt starts, none while waiting and none once the call has returned,
\* and every attempt that got a response has closed its body.
C14_BodiesClosed ==
    \A c \in Calls :
        /\ openBodies[c] = (IF pc[c] = "read" THEN 1 ELSE 0)
        /\ \A n \in 1..Attempts(c) :
              LET evs == EventsOfAttempt(c, n)
              IN  "response" \in evs => "close" \in evs

C14_Witness ==
    \E c \in Calls :
        /\ Done(c) /\ openBodies[c] = 0
        /\ history[c] = <<"read", "ok">>
        /\ "close" \in EventsOfAttempt(c, 1)
        /\ "close" \in EventsOfAttempt(c, 2)

\* C15: a failed body read yields no response and a read error; the loop
\* treats it as it treats a transport error (wait if RetryInterval > 0, else
\* return); and the pair a call holds after an attempt is that attempt's
\* alone: a response with a nil error, or no response with that attempt's error.
C15_ReadErrorDiscardsResponse ==
    /\ [](\A c \in Calls :
            (pc[c] \in {"after", "wait", "done"} /\ Attempts(c) >= 1)
                => IF Last(history[c]) = "ok"
                   THEN /\ err[c] = Nil
                        /\ result[c] # Nil /\ result[c].attempt = Attempts(c)
                   ELSE /\ result[c] = Nil
                        /\ err[c] = [kind |-> Last(history[c]), attempt |-> Attempts(c)])
    /\ [][\A c \in Calls :
            /\ (pc[c] = "read" /\ history'[c] = Append(history[c], "read"))
                  => /\ result'[c] = Nil
                     /\ err'[c] = [kind |-> "read", attempt |-> Attempt(c)]
                     /\ resp'[c] = Nil
            /\ (pc[c] = "after" /\ err[c] # Nil /\ err[c].kind \in {"read", "transport"}
                   /\ pc'[c] # "after")
                  => pc'[c] = (IF RetryInterval > 0 THEN "wait" ELSE "done")]_vars

C15_Witness ==
    \E c \in Calls :
        /\ Done(c) /\ ~ctxDone[c] /\ MaxRetryTimes = 2 /\ RetryInterval > 0
        /\ history[c] = <<"read", "read">>
        /\ result[c] = Nil
        /\ err[c] = [kind |-> "read", attempt |-> 2]

\* C16: a call on any client a constructor returned makes at least one
\* attempt and returns exactly one of a response and an error.
C16_AtLeastOneAttempt ==
    \A c \in Calls :
        Done(c) => /\ Attempts(c) >= 1
                   /\ (result[c] = Nil) # (err[c] = Nil)

\* C18: in every state a call has started at most MaxRetryTimes attempts (no
\* event of the call bears a higher attempt number), and when the transport,
\* the body reads and the timers complete, a call that was entered returns.
C18_BoundedAttemptsAndReturn ==
    /\ [](\A c \in Calls :
            Ready => /\ Started(c) <= MaxRetryTimes
                     /\ retryTimes[c] <= MaxRetryTimes
                     /\ \A i \in DOMAIN events[c] : events[c][i][1] <= MaxRetryTimes)
    /\ \A c \in Calls : (Ready /\ pc[c] # "idle") ~> Done(c)

C18_Witness ==
    \E c \in Calls :
        /\ Done(c) /\ MaxRetryTimes = 3 /\ Started(c) = 3
        /\ history[c] = <<"transport", "transport", "ok">>
        /\ waits[c] = 2

\* C17: hooks only observe. Whatever step a call takes (entry, build, send
\* outcome, read outcome, wait, timer, cancellation), the call on the same
\* client with the same request but another hook set, one of the two having
\* no trace value, can take the same step with the same outcome; and two such
\* calls that returned made the same attempts, the same waits and hold the
\* same response/error pair. The hook invocations are all that differs.
C17_HooksObservational ==
    /\ (View(1) # View(2)) => ENABLED Follow
    /\ (Done(1) /\ Done(2))
          => /\ history[1] = history[2]
             /\ waits[1] = waits[2]
             /\ result[1] = result[2]
             /\ err[1] = err[2]
             /\ ctxDone[1] = ctxDone[2]
    /\ \A c \in Calls :
          /\ SelectSeq(events[c], NotHookEvent) = SelectSeq(events[3 - c], NotHookEvent)
                \/ View(1) # View(2)
          /\ \A i \in DOMAIN hooked[c] :
                trace[c] # Nil /\ hooked[c][i].hook \in trace[c].hooks

C17_Witness ==
    /\ Done(1) /\ Done(2)
    /\ trace[1] = [hooks |-> Hooks] /\ trace[2] = Nil
    /\ history[1] = <<"read", "ok">> /\ history[2] = history[1]
    /\ Len(hooked[1]) = 5 /\ hooked[2] = <<>>
    /\ result[1] = result[2] /\ result[1] # Nil

\* Attempts a call started after its context was cancelled.
StartedAfterCancel(c) == IF ctxDone[c] THEN Started(c) - cancelledAt[c] ELSE 0

\* C19 as stated: once the context is cancelled the call starts at most one
\* further attempt, and a call that started one returns an error.
C19_AtMostOneAttemptAfterCancel ==
    \A c \in Calls :
        (Ready /\ ctxDone[c])
            => /\ StartedAfterCancel(c) <= 1
               /\ (Done(c) /\ StartedAfterCancel(c) >= 1) => err[c] # Nil

\* C19 amended, for clients that hand ctx to client.Do: every attempt started
\* after the cancellation fails in the build or in the send, with no response
\* and no body opened; a call that started one returns no response and an
\* error; attempts started after the cancellation number at most
\* MaxRetryTimes less those started before it; and a cancelled call leaves its
\* wait for a further attempt only on a timer that has fired, and with its
\* timer still armed only returns.
C19_AttemptsAfterCancelFail ==
    /\ [](\A c \in Calls :
            (Ready /\ variant = "traced" /\ ctxDone[c])
                => /\ StartedAfterCancel(c) <= MaxRetryTimes - cancelledAt[c]
                   /\ \A k \in DOMAIN history[c] :
                         k > cancelledAt[c]
                            => /\ history[c][k] \in {"build", "transport"}
                               /\ "response" \notin EventsOfAttempt(c, k)
                   /\ (StartedAfterCancel(c) >= 1 /\ pc[c] \in {"after", "wait", "done"})
                         => (result[c] = Nil /\ err[c] # Nil))
    /\ [][\A c \in Calls :
            (ctxDone[c] /\ pc[c] = "wait" /\ pc'[c] # "wait")
                => IF timer[c] = "fired" THEN pc'[c] \in {"build", "done"}
                   ELSE pc'[c] = "done" /\ retryTimes'[c] = retryTimes[c]]_vars

C19_Witness ==
    \E c \in Calls :
        /\ Done(c) /\ variant = "traced" /\ ctxDone[c]
        /\ MaxRetryTimes = 3
        /\ cancelledAt[c] = 1 /\ StartedAfterCancel(c) = 2
        /\ history[c] = <<"read", "transport", "transport">>
        /\ err[c] = [kind |-> "transport", attempt |-> 3]

====
